---- MODULE Spec2Model ----
(***************************************************************************)
(* Model of ota.py: the OTA object after construction (remote git tree     *)
(* fetched, ignore list set, internal tree built), a pull_repo run over    *)
(* the remote tree, build_internal_tree / _filter_ignore_items and         *)
(* backup_all.  Paths, patterns and file contents are sequences of         *)
(* one-character strings so that regular-expression matching, path         *)
(* normalisation and the backup framing are computed, not assumed.         *)
(* Filesystem calls follow CPython on a POSIX filesystem.                  *)
(***************************************************************************)
EXTENDS Integers, Sequences, FiniteSets, TLC

VARIABLES tree, truncated, ignore_list, unreachable, fs, fs0,
          pc, idx, exc, log, internal_tree, full_tree, last_call

vars == <<tree, truncated, ignore_list, unreachable, fs, fs0,
          pc, idx, exc, log, internal_tree, full_tree, last_call>>

(* ---------------------------- bounds ----------------------------------- *)

\* longest remote tree listing explored
MaxTree == 2

\* longest ignore list explored
MaxIgnore == 2

(* ------------------------ generic helpers ------------------------------ *)

Range(s) == {s[i] : i \in 1..Len(s)}

\* all orderings of a finite set, as sequences without repetition
Perms(S) == {s \in [1..Cardinality(S) -> S] : \A i, j \in 1..Cardinality(S) : i # j => s[i] # s[j]}

\* sequences without repetition over S of length at most n
InjSeqs(S, n) == UNION {{s \in [1..k -> S] : \A i, j \in 1..k : i # j => s[i] # s[j]} : k \in 0..n}

(* --------------------------- paths ------------------------------------- *)

Sep == "/"

\* the current directory, os.path.normpath('./')
Root == <<".">>

PathA == <<"a">>

PathAB == <<"a", "/", "b">>

PathS == <<"s">>

\* 'ota.backup', the archive backup_all opens
BackupPath == <<"o", "t", "a", ".", "b", "a", "c", "k", "u", "p">>

\* paths a remote tree entry can name
RemotePaths == {PathA, PathAB, PathS}

\* every path of the modelled filesystem below the current directory
FsPaths == RemotePaths \cup {BackupPath}

\* split a path at the separators
RECURSIVE SplitPath(_)
SplitPath(p) ==
    IF \A i \in 1..Len(p) : p[i] # Sep THEN <<p>>
    ELSE LET k == CHOOSE i \in 1..Len(p) : p[i] = Sep /\ \A j \in 1..(i - 1) : p[j] # Sep
         IN  <<SubSeq(p, 1, k - 1)>> \o SplitPath(SubSeq(p, k + 1, Len(p)))

RECURSIVE JoinComps(_)
JoinComps(cs) ==
    IF cs = <<>> THEN <<>>
    ELSE IF Len(cs) = 1 THEN cs[1]
    ELSE cs[1] \o <<Sep>> \o JoinComps(Tail(cs))

\* os.path.normpath on relative paths without '..': empty and '.' components
\* are dropped, an empty result is '.'
NormPath(p) ==
    LET comps == SelectSeq(SplitPath(p), LAMBDA c : c # <<>> /\ c # <<".">>)
    IN  IF comps = <<>> THEN Root ELSE JoinComps(comps)

\* os.path.join(path, sub_path) for a relative sub_path
PathJoin(path, sub) ==
    IF path = <<>> THEN sub
    ELSE IF path[Len(path)] = Sep THEN path \o sub
    ELSE path \o <<Sep>> \o sub

\* directory holding a normalised path
Parent(p) ==
    LET cs == SplitPath(p)
    IN  IF Len(cs) <= 1 THEN Root ELSE JoinComps(SubSeq(cs, 1, Len(cs) - 1))

\* last component of a normalised path
Basename(p) == LET cs == SplitPath(p) IN cs[Len(cs)]

(* ------------------------ regular expressions -------------------------- *)

\* compiled form of a pattern: one token per atom, '.' is any character and
\* a following '*' makes the atom repeatable
RECURSIVE ReCompile(_)
ReCompile(s) ==
    IF s = <<>> THEN <<>>
    ELSE LET star == Len(s) >= 2 /\ s[2] = "*"
             tok  == [ch |-> s[1], any |-> s[1] = ".", star |-> star]
         IN  <<tok>> \o ReCompile(SubSeq(s, IF star THEN 3 ELSE 2, Len(s)))

RECURSIVE ReMatchAt(_, _, _, _)
ReMatchAt(re, i, s, j) ==
    IF i > Len(re) THEN TRUE
    ELSE LET t    == re[i]
             here == j <= Len(s) /\ (t.any \/ t.ch = s[j])
         IN  IF t.star
             THEN ReMatchAt(re, i + 1, s, j) \/ (here /\ ReMatchAt(re, i, s, j + 1))
             ELSE here /\ ReMatchAt(re, i + 1, s, j + 1)

\* re.match(pattern, string): the pattern matches a prefix of the string
ReMatch(pattern, string) == ReMatchAt(ReCompile(pattern), 1, string, 1)

\* first-match variant: only the first rule of the list is tested
AnyIgnoreFirstRule(rules, path) ==
    rules # <<>> /\ ReMatch(Head(rules), path)

\* any(re.match(_ignore, path) for _ignore in ignore_list)
RECURSIVE AnyIgnore(_, _)
AnyIgnore(rules, path) ==
    IF rules = <<>> THEN FALSE
    ELSE IF ReMatch(Head(rules), path) THEN TRUE
    ELSE AnyIgnore(Tail(rules), path)

\* patterns the ignore list is drawn from: 's', 'a/.*', 'a'
IgnorePatterns == {<<"s">>, <<"a", "/", ".", "*">>, <<"a">>}

(* --------------------------- filesystem -------------------------------- *)

NoEntry == [kind |-> "none", content |-> <<>>]

DirEntry == [kind |-> "dir", content |-> <<>>]

FileEntry(c) == [kind |-> "file", content |-> c]

\* content of the local files before the run
OldContent == <<"o">>

\* what the raw-content endpoint returns for a path
RawContent(path) == <<"n">>

\* os.path.exists
Exists(f, p) == f[p].kind # "none"

ParentIsDir(f, p) == Parent(p) = Root \/ f[Parent(p)].kind = "dir"

\* the error of a call on a path whose parent is not a directory
ParentError(f, p) ==
    IF f[Parent(p)].kind = "file" THEN "NotADirectoryError" ELSE "FileNotFoundError"

\* a directory tree: every entry lives in a directory
WellFormed(f) == \A p \in FsPaths : f[p].kind # "none" => ParentIsDir(f, p)

\* recursive-delete variant: a directory goes with everything below it
OsRemoveTree(f, p) ==
    [err |-> "",
     fs  |-> [q \in FsPaths |-> IF q = p \/ Parent(q) = p THEN NoEntry ELSE f[q]]]

\* os.remove(path) on an existing path
OsRemove(f, p) ==
    IF f[p].kind = "dir" THEN [err |-> "IsADirectoryError", fs |-> f]
    ELSE [err |-> "", fs |-> [f EXCEPT ![p] = NoEntry]]

\* open(path, 'w'): creates or truncates the file
OpenW(f, p) ==
    IF ~ParentIsDir(f, p) THEN [err |-> ParentError(f, p), fs |-> f]
    ELSE IF f[p].kind = "dir" THEN [err |-> "IsADirectoryError", fs |-> f]
    ELSE [err |-> "", fs |-> [f EXCEPT ![p] = FileEntry(<<>>)]]

\* os.mkdir(path)
OsMkdir(f, p) ==
    IF ~ParentIsDir(f, p) THEN [err |-> ParentError(f, p), fs |-> f]
    ELSE IF f[p].kind # "none" THEN [err |-> "FileExistsError", fs |-> f]
    ELSE [err |-> "", fs |-> [f EXCEPT ![p] = DirEntry]]

(* ----------------------- local tree and filter -------------------------- *)

\* concatenations picking one sequence from each set, in order
RECURSIVE ConcatSets(_)
ConcatSets(ss) ==
    IF ss = <<>> THEN {<<>>}
    ELSE {h \o t : h \in Head(ss), t \in ConcatSets(Tail(ss))}

\* OTA._list_dir(path): the files below path.  os.listdir returns the names
\* in arbitrary order, so the result is any of a set of listings.
RECURSIVE _list_dir(_, _)
_list_dir(f, path) ==
    LET dir   == NormPath(path)
        names == {Basename(q) : q \in {p \in FsPaths : f[p].kind # "none" /\ Parent(p) = dir}}
        Sub(sub_path) ==
            LET p == NormPath(PathJoin(path, sub_path))
            IN  IF f[p].kind = "file" THEN {<<p>>}
                ELSE IF f[p].kind = "dir" THEN _list_dir(f, p)
                ELSE {<<>>}
    IN  UNION {ConcatSets([i \in 1..Len(order) |-> Sub(order[i])]) : order \in Perms(names)}

\* hex of the SHA-1 digest, first four digits, of the contents that occur
Sha1Hex(c) ==
    CASE c = <<>>     -> <<"d", "a", "3", "9">>
      [] c = <<"o">>  -> <<"7", "a", "8", "1">>
      [] c = <<"n">>  -> <<"d", "1", "8", "5">>
      [] OTHER        -> <<"0", "0", "0", "0">>

\* OTA._get_sha(file_path)
_get_sha(f, file_path) == Sha1Hex(f[file_path].content)

\* OTA._build_internal_tree(): (path, sha) of every file, in listing order
_build_internal_tree(f) ==
    {[i \in 1..Len(files) |-> <<files[i], _get_sha(f, files[i])>>] : files \in _list_dir(f, <<".", "/">>)}

\* OTA._filter_ignore_items(tree) with self.ignore_list = rules
RECURSIVE _filter_ignore_items(_, _)
_filter_ignore_items(rules, t) ==
    IF t = <<>> THEN <<>>
    ELSE IF AnyIgnore(rules, Head(t)[1]) THEN _filter_ignore_items(rules, Tail(t))
    ELSE <<Head(t)>> \o _filter_ignore_items(rules, Tail(t))

(* ------------------------------ backup --------------------------------- *)

\* str() of a bytes object inside an f-string: b'...'
BytesStr(b) == <<"b", "'">> \o b \o <<"'">>

\* f'FN:SHA1{item[0]},{item[1]}\n'
BackupHeader(item) ==
    <<"F", "N", ":", "S", "H", "A", "1">> \o item[1] \o <<",">> \o BytesStr(item[2]) \o <<"\n">>

\* '---' + target.read() + '---\n'
BackupBody(content) == <<"-", "-", "-">> \o content \o <<"-", "-", "-", "\n">>

\* open(path) with the default mode 'r'
OpenR(f, p) ==
    IF f[p].kind = "none" THEN [err |-> "FileNotFoundError", mode |-> "r"]
    ELSE IF f[p].kind = "dir" THEN [err |-> "IsADirectoryError", mode |-> "r"]
    ELSE [err |-> "", mode |-> "r"]

\* file.write(data) on a handle opened with the given mode
FileWrite(mode, buf, data) ==
    IF mode = "r" THEN [err |-> "UnsupportedOperation", buf |-> buf]
    ELSE [err |-> "", buf |-> buf \o data]

\* the for loop of backup_all over the items still to write
RECURSIVE BackupLoop(_, _, _, _)
BackupLoop(f, mode, buf, items) ==
    IF items = <<>> THEN [err |-> "", buf |-> buf]
    ELSE LET item == Head(items)
             w1   == FileWrite(mode, buf, BackupHeader(item))
             w2   == FileWrite(mode, w1.buf, BackupBody(f[item[1]].content))
         IN  IF w1.err # "" THEN w1
             ELSE IF w2.err # "" THEN w2
             ELSE BackupLoop(f, mode, w2.buf, Tail(items))

(* --------------------------- inputs, Init ------------------------------ *)

\* most paths whose content fetch fails in one run
MaxUnreachable == 1

\* type of a remote tree entry: file, directory, submodule
EntryTypes == {"blob", "tree", "commit"}

\* GitTreeElement.__init__: the path is normalised
GitTreeElement(path, type) == [path |-> NormPath(path), type |-> type]

\* GitTree.tree for a listing of at most n entries with distinct paths
GitTrees(n) ==
    UNION {{[i \in 1..Len(ps) |-> GitTreeElement(ps[i], ts[i])] : ts \in [1..Len(ps) -> EntryTypes]}
           : ps \in InjSeqs(RemotePaths, n)}

\* local directory trees over the given file contents; the archive path
\* is never a directory
LocalTrees(contents) ==
    {f \in [FsPaths -> {NoEntry, DirEntry} \cup {FileEntry(c) : c \in contents}] :
        WellFormed(f) /\ f[BackupPath].kind # "dir"}

\* OTA.__init__ has run: GitManager fetched the tree, the ignore list is
\* set and build_internal_tree has filled internal_tree
InitWith(trees, truncs, lists, fails, dirs) ==
    /\ tree \in trees
    /\ truncated \in truncs
    /\ ignore_list \in lists
    /\ unreachable \in fails
    /\ fs \in dirs
    /\ fs0 = fs
    /\ pc = "idle"
    /\ idx = 0
    /\ exc = ""
    /\ log = <<>>
    /\ internal_tree \in {_filter_ignore_items(ignore_list, t) : t \in _build_internal_tree(fs)}
    /\ full_tree = <<>>
    /\ last_call = "__init__"

\* an updater about to pull: old files, no backup archive written yet
Init ==
    InitWith(GitTrees(MaxTree), BOOLEAN, InjSeqs(IgnorePatterns, MaxIgnore),
             {u \in SUBSET RemotePaths : Cardinality(u) <= MaxUnreachable},
             {f \in LocalTrees({OldContent}) : f[BackupPath].kind = "none"})

\* an updater of an empty repository, over any local tree of old and
\* pulled files
InitTree ==
    InitWith(GitTrees(0), {FALSE}, InjSeqs(IgnorePatterns, MaxIgnore), {{}},
             LocalTrees({OldContent, RawContent(PathA)}))

(* ----------------------------- pull_repo ------------------------------- *)

\* the entry the for loop is at
item == tree[idx]

Logged(level, msg, path) == Append(log, [level |-> level, msg |-> msg, path |-> path])

\* an exception leaves pull_repo: the run is over
Raise(e) ==
    /\ pc' = "raised"
    /\ exc' = e

\* call of OTA.pull_repo
pull_repo ==
    /\ pc = "idle"
    /\ pc' = "loop"
    /\ idx' = 1
    /\ last_call' = "pull_repo"
    /\ UNCHANGED <<tree, truncated, ignore_list, unreachable, fs, fs0, exc, log,
                   internal_tree, full_tree>>

\* lines 169-171: next entry; a match of the ignore list is logged only
ForNext ==
    /\ pc = "loop"
    /\ idx <= Len(tree)
    /\ log' = IF AnyIgnore(ignore_list, item.path)
              THEN Logged("warning", "Skip", item.path)
              ELSE log
    /\ pc' = "dispatch"
    /\ UNCHANGED <<tree, truncated, ignore_list, unreachable, fs, fs0, idx, exc,
                   internal_tree, full_tree, last_call>>

\* the for loop is exhausted: pull_repo returns
ForEnd ==
    /\ pc = "loop"
    /\ idx > Len(tree)
    /\ pc' = "done"
    /\ UNCHANGED <<tree, truncated, ignore_list, unreachable, fs, fs0, idx, exc, log,
                   internal_tree, full_tree, last_call>>

\* lines 173-176: a blob; an existing local path is removed first
BlobRemove ==
    /\ pc = "dispatch"
    /\ item.type = "blob"
    /\ IF Exists(fs, item.path)
       THEN LET r == OsRemove(fs, item.path)
            IN  /\ log' = Logged("info", "Deleting", item.path)
                /\ fs' = r.fs
                /\ IF r.err # "" THEN Raise(r.err)
                   ELSE pc' = "pull_open" /\ exc' = exc
       ELSE /\ pc' = "pull_open"
            /\ UNCHANGED <<fs, exc, log>>
    /\ UNCHANGED <<tree, truncated, ignore_list, unreachable, fs0, idx,
                   internal_tree, full_tree, last_call>>

\* GitManager.pull_file, lines 108-109: the destination is opened for writing
PullFileOpen ==
    /\ pc = "pull_open"
    /\ LET r == OpenW(fs, item.path)
       IN  /\ log' = Logged("info", "Pulling", item.path)
           /\ fs' = r.fs
           /\ IF r.err # "" THEN Raise(r.err)
              ELSE pc' = "pull_write" /\ exc' = exc
    /\ UNCHANGED <<tree, truncated, ignore_list, unreachable, fs0, idx,
                   internal_tree, full_tree, last_call>>

\* GitManager._get_file_content, lines 113-114
_get_file_content(file_path) ==
    IF file_path \in unreachable THEN [err |-> "OSError", content |-> <<>>]
    ELSE [err |-> "", content |-> RawContent(file_path)]

\* line 110: the content is fetched and written, the file closed; the
\* loop goes to the next entry
PullFileWrite ==
    /\ pc = "pull_write"
    /\ LET r == _get_file_content(item.path)
       IN  /\ log' = Logged("info", "Getting content", item.path)
           /\ IF r.err # ""
              THEN /\ Raise(r.err)
                   /\ UNCHANGED <<fs, idx>>
              ELSE /\ fs' = [fs EXCEPT ![item.path] = FileEntry(fs[item.path].content \o r.content)]
                   /\ idx' = idx + 1
                   /\ pc' = "loop"
                   /\ exc' = exc
    /\ UNCHANGED <<tree, truncated, ignore_list, unreachable, fs0,
                   internal_tree, full_tree, last_call>>

\* lines 178-180: a tree whose path does not exist is created
TreeMkdir ==
    /\ pc = "dispatch"
    /\ item.type = "tree"
    /\ ~Exists(fs, item.path)
    /\ LET r == OsMkdir(fs, item.path)
       IN  /\ log' = Logged("info", "Creating", item.path)
           /\ fs' = r.fs
           /\ IF r.err # ""
              THEN Raise(r.err) /\ idx' = idx
              ELSE pc' = "loop" /\ idx' = idx + 1 /\ exc' = exc
    /\ UNCHANGED <<tree, truncated, ignore_list, unreachable, fs0,
                   internal_tree, full_tree, last_call>>

\* lines 181-182: everything else, an existing tree path included
Unexpected ==
    /\ pc = "dispatch"
    /\ item.type # "blob"
    /\ ~(item.type = "tree" /\ ~Exists(fs, item.path))
    /\ log' = Logged("error", "Unexpected git tree item", item.path)
    /\ pc' = "loop"
    /\ idx' = idx + 1
    /\ UNCHANGED <<tree, truncated, ignore_list, unreachable, fs, fs0, exc,
                   internal_tree, full_tree, last_call>>

Next ==
    \/ pull_repo
    \/ ForNext
    \/ ForEnd
    \/ BlobRemove
    \/ PullFileOpen
    \/ PullFileWrite
    \/ TreeMkdir
    \/ Unexpected

Spec == Init /\ [][Next]_vars

\* pull_repo has returned or was left by an exception
RunEnded == pc \in {"done", "raised"}

TypeOK ==
    /\ WellFormed(fs)
    /\ pc \in {"idle", "loop", "dispatch", "pull_open", "pull_write", "done", "raised"}
    /\ idx \in 0..(Len(tree) + 1)

(* ------------------- build_internal_tree, backup_all ------------------- *)

\* call of OTA.build_internal_tree, lines 157-159
build_internal_tree ==
    /\ pc = "idle"
    /\ \E t \in _build_internal_tree(fs) :
          internal_tree' = _filter_ignore_items(ignore_list, t)
    /\ last_call' = "build_internal_tree"
    /\ exc' = ""
    /\ UNCHANGED <<tree, truncated, ignore_list, unreachable, fs, fs0, pc, idx, log, full_tree>>

\* call of OTA.backup_all, lines 184-190: the archive is opened with the
\* default mode and the records are written to that handle
backup_all ==
    /\ pc = "idle"
    /\ \E t \in _build_internal_tree(fs) :
          LET o == OpenR(fs, BackupPath)
              r == BackupLoop(fs, o.mode, fs[BackupPath].content, t)
          IN  /\ full_tree' = t
              /\ IF o.err # ""
                 THEN exc' = o.err /\ fs' = fs
                 ELSE exc' = r.err /\ fs' = [fs EXCEPT ![BackupPath] = FileEntry(r.buf)]
    /\ last_call' = "backup_all"
    /\ UNCHANGED <<tree, truncated, ignore_list, unreachable, fs0, pc, idx, log, internal_tree>>

NextTree ==
    \/ build_internal_tree
    \/ backup_all

SpecTree == InitTree /\ [][NextTree]_vars

\* first position at or after from where pat occurs in s, 0 if none
FindSub(s, pat, from) ==
    LET hits == {i \in from..(Len(s) - Len(pat) + 1) : SubSeq(s, i, i + Len(pat) - 1) = pat}
    IN  IF hits = {} THEN 0 ELSE CHOOSE i \in hits : \A j \in hits : i <= j

\* reader of the archive format FN:SHA1<path>,<fingerprint>\n---<raw>---\n
RECURSIVE ParseBackup(_)
ParseBackup(s) ==
    IF s = <<>> THEN [ok |-> TRUE, records |-> <<>>]
    ELSE LET magic  == <<"F", "N", ":", "S", "H", "A", "1">>
             comma  == FindSub(s, <<",">>, Len(magic) + 1)
             nl     == FindSub(s, <<"\n">>, comma + 1)
             close  == FindSub(s, <<"-", "-", "-", "\n">>, nl + 4)
             fptext == SubSeq(s, comma + 1, nl - 1)
             framed == /\ Len(s) >= Len(magic)
                       /\ SubSeq(s, 1, Len(magic)) = magic
                       /\ comma # 0
                       /\ nl # 0
                       /\ Len(fptext) >= 3
                       /\ SubSeq(fptext, 1, 2) = <<"b", "'">>
                       /\ fptext[Len(fptext)] = "'"
                       /\ nl + 3 <= Len(s)
                       /\ SubSeq(s, nl + 1, nl + 3) = <<"-", "-", "-">>
                       /\ close # 0
         IN  IF ~framed THEN [ok |-> FALSE, records |-> <<>>]
             ELSE LET rest == ParseBackup(SubSeq(s, close + 4, Len(s)))
                      rec  == <<SubSeq(s, Len(magic) + 1, comma - 1),
                                SubSeq(fptext, 3, Len(fptext) - 1)>>
                  IN  [ok |-> rest.ok, records |-> <<rec>> \o rest.records]

(* ------------------------------ claims --------------------------------- *)

\* the path matches at least one rule of the ignore list
Ignored(path) == \E r \in Range(ignore_list) : ReMatch(r, path)

\* paths named by the remote tree
TreePaths == {tree[i].path : i \in 1..Len(tree)}

\* entries of the remote tree
Entries == 1..Len(tree)

\* the content fetch of entry k failed
FetchFailed(k) == exc = "OSError" /\ idx = k

\* paths of the log records with the given message
Reported(msg) == {log[i].path : i \in {j \in 1..Len(log) : log[j].msg = msg}}

\* C1: no step of a pull_repo run changes the local path of a remote entry
\* that matches an ignore rule, whatever the entry's type and the path's
\* local state
C1_IgnoredEntryUntouched ==
    [][\A i \in Entries : Ignored(tree[i].path) => fs'[tree[i].path] = fs[tree[i].path]]_vars

\* C2: when the content fetch of entry k fails, the run still goes through
\* every later entry and ends normally with exactly entry k reported FAILED
C2_FetchFailureIsolated ==
    \A k \in Entries :
        (RunEnded /\ FetchFailed(k)) =>
            /\ pc = "done"
            /\ idx > Len(tree)
            /\ Reported("FAILED") = {tree[k].path}

\* C3: with truncated = true the local filesystem never changes and the
\* run ends in a reported TruncatedManifest failure
C3_TruncatedTreeRefused ==
    truncated =>
        /\ fs = fs0
        /\ RunEnded => (pc = "raised" /\ exc = "TruncatedManifest")

\* C4: after the run, every blob entry that is not ignored and whose content
\* can be fetched is a local file holding the fetched content
C4_BlobWritten ==
    RunEnded =>
        \A i \in Entries :
            (tree[i].type = "blob" /\ ~Ignored(tree[i].path) /\ tree[i].path \notin unreachable)
                => fs[tree[i].path] = FileEntry(RawContent(tree[i].path))

\* C5: after the run, every tree entry that is not ignored and whose path
\* did not exist when the run started is a local directory
C5_DirectoryCreated ==
    RunEnded =>
        \A i \in Entries :
            (tree[i].type = "tree" /\ ~Ignored(tree[i].path) /\ fs0[tree[i].path].kind = "none")
                => fs[tree[i].path].kind = "dir"

\* C6: after backup_all, re-parsing the archive yields the records of the
\* local manifest, in order, equal in (path, fingerprint)
C6_BackupRoundTrip ==
    last_call = "backup_all" =>
        /\ fs[BackupPath].kind = "file"
        /\ ParseBackup(fs[BackupPath].content).ok
        /\ ParseBackup(fs[BackupPath].content).records = full_tree

\* C7: the ignore filter is idempotent, drops exactly the entries whose path
\* matches at least one rule, keeps the others in their order, and gives the
\* same result for every order of the rules
C7_FilterIdempotentUnion ==
    /\ _filter_ignore_items(ignore_list, internal_tree) = internal_tree
    /\ \A M \in _build_internal_tree(fs) :
          LET F == _filter_ignore_items(ignore_list, M)
          IN  /\ _filter_ignore_items(ignore_list, F) = F
              /\ F = SelectSeq(M, LAMBDA e : ~Ignored(e[1]))
              /\ \A R \in Perms(Range(ignore_list)) : _filter_ignore_items(R, M) = F

\* build_internal_tree ran with two rules, kept an entry and dropped one
\* that only the second rule matches
C7_Witness ==
    /\ last_call = "build_internal_tree"
    /\ Len(ignore_list) = 2
    /\ internal_tree # <<>>
    /\ \E M \in _build_internal_tree(fs) :
          /\ internal_tree = _filter_ignore_items(ignore_list, M)
          /\ \E i \in 1..Len(M) :
                /\ ~ReMatch(ignore_list[1], M[i][1])
                /\ ReMatch(ignore_list[2], M[i][1])
                /\ M[i] \notin Range(internal_tree)

\* C8: when the content fetch of a blob entry fails, the local file that was
\* at that path still exists with its previous content
C8_FetchBeforeRemove ==
    \A k \in Entries :
        (FetchFailed(k) /\ fs0[tree[k].path].kind = "file")
            => fs[tree[k].path] = fs0[tree[k].path]

\* C9: a tree entry whose path exists changes nothing and lets the run go
\* on; an existing directory gets no error report, an existing file is
\* reported as CONFLICT, not as an unexpected item
C9_ExistingPathOfTreeEntry ==
    [][(pc = "dispatch" /\ item.type = "tree" /\ Exists(fs, item.path)) =>
          /\ fs' = fs
          /\ pc' = "loop"
          /\ idx' = idx + 1
          /\ fs[item.path].kind = "dir" =>
                \A j \in (Len(log) + 1)..Len(log') : log'[j].level # "error"
          /\ fs[item.path].kind = "file" =>
                /\ Len(log') = Len(log) + 1
                /\ log'[Len(log')].msg = "CONFLICT"
                /\ log'[Len(log')].path = item.path]_vars

\* C10: no step of a pull_repo run changes a local path that is not the
\* path of a remote entry, and no step removes or replaces a directory
C10_PullRepoFrame ==
    [][\A p \in FsPaths :
          /\ p \notin TreePaths => fs'[p] = fs[p]
          /\ fs[p].kind = "dir" => fs'[p] = fs[p]]_vars

\* a finished run that replaced a local file and left alone a local file
\* and a directory, the file not named by the remote tree
C10_Witness ==
    /\ pc = "done"
    /\ \E i \in Entries :
          /\ tree[i].type = "blob"
          /\ fs0[tree[i].path] = FileEntry(OldContent)
          /\ fs[tree[i].path] = FileEntry(RawContent(tree[i].path))
    /\ \E p \in FsPaths \ TreePaths : fs0[p].kind = "file" /\ fs[p] = fs0[p]
    /\ \E p \in FsPaths : fs0[p].kind = "dir" /\ fs[p].kind = "dir"

====
